---- MODULE Spec2Model ----
(***************************************************************************)
(* Model of the GraphRAG pipeline of User-Feedback-Analyzer:               *)
(*   main.py           main: scrape, build, query loop                     *)
(*   graph_builder.py  build_knowledge_graph and its helpers               *)
(*   query_engine.py   retrieve_and_build_context, answer_query_with_graph *)
(* Review files are named by their position in the os.listdir order, so    *)
(* file d is the d-th document the build loop processes.                   *)
(***************************************************************************)
EXTENDS Integers, Sequences, FiniteSets, TLC

(* ---------------- bounds of the model ---------------- *)
MaxDocs == 2
MaxEntities == 1
MaxRels == 1

(* ---------------- program constants ---------------- *)
top_k == 5
\* Python None (an integer attribute that is not set) and a missing text attribute
None == -1
Absent == "None"

NothingFound == "I couldn't find any relevant information in the knowledge graph to answer your question."
BuildFirst == "Could not find the necessary index files. Please build the index first."
GenError == "An error occurred while generating the answer: {e}"
SummaryFailed == "Summary generation failed."
NoSummary == "No summary available."
NoRelationships == "  - No direct relationships found."
ContextHeader == "CONTEXT FOR YOUR ANSWER:"

(* ---------------- value sets drawn by the backends ---------------- *)
Ids == {"bug1", "feat1"}
Entities ==
    {[id |-> "bug1", type |-> "BUG_REPORT", value |-> "crash on open"],
     [id |-> "feat1", type |-> "FEATURE_REQUEST", value |-> "dark mode"],
     [id |-> "bug1", type |-> "PRODUCT_COMPONENT", value |-> "login"]}
\* the relationships the extraction may report: one between the two entities
\* and two that name an id ("ghost") no review ever yields as an entity
Relationships ==
    {[source |-> "bug1", target |-> "feat1", type |-> "related_to"],
     [source |-> "bug1", target |-> "ghost", type |-> "describes"],
     [source |-> "ghost", target |-> "feat1", type |-> "describes"]}

SeqsUpTo(S, n) == UNION {[1..k -> S] : k \in 0..n}

\* what llm_model.generate_content can answer to the extraction prompt
Responses ==
    [kind : {"ok", "bad_json"},
     entities : SeqsUpTo(Entities, MaxEntities),
     relationships : SeqsUpTo(Relationships, MaxRels)]
    \cup [kind : {"api_error", "no_json"}, entities : {<<>>}, relationships : {<<>>}]

NoData == [none |-> TRUE, entities |-> <<>>, relationships |-> <<>>]

(* ---------------- graph_builder.py: extraction ---------------- *)
lenient_extract(resp) ==
    IF resp.kind \in {"ok", "bad_json"}
    THEN [none |-> FALSE, entities |-> resp.entities, relationships |-> resp.relationships]
    ELSE NoData

extract_entities_from_review(resp) ==
    IF resp.kind = "ok"
    THEN [none |-> FALSE, entities |-> resp.entities, relationships |-> resp.relationships]
    ELSE NoData

\* Python truthiness of the returned dict: None and {} are both falsy
Truthy(data) == ~data.none /\ (data.entities # <<>> \/ data.relationships # <<>>)

(* ---------------- the networkx MultiDiGraph ---------------- *)
EmptyGraph == [order |-> <<>>, data |-> <<>>, edges |-> <<>>]

has_node(G, n) == \E k \in 1..Len(G.order) : G.order[k] = n

NodeData(G, n) == G.data[CHOOSE k \in 1..Len(G.order) : G.order[k] = n]

number_of_nodes(G) == Len(G.order)

number_of_edges(G) == Len(G.edges)

keep_first_add_node(G, e, filename) ==
    IF has_node(G, e.id)
    THEN LET k == CHOOSE j \in 1..Len(G.order) : G.order[j] = e.id
         IN [G EXCEPT !.data[k].type = e.type, !.data[k].value = e.value]
    ELSE [G EXCEPT !.order = Append(@, e.id),
                   !.data = Append(@, [type |-> e.type, value |-> e.value,
                                       source_file |-> filename, community_id |-> None])]

\* G.add_node(id, type=, value=, source_file=): a new node is appended, an
\* existing node keeps its position and has the three attributes updated
add_node(G, e, filename) ==
    IF has_node(G, e.id)
    THEN LET k == CHOOSE j \in 1..Len(G.order) : G.order[j] = e.id
         IN [G EXCEPT !.data[k].type = e.type, !.data[k].value = e.value,
                      !.data[k].source_file = filename]
    ELSE [G EXCEPT !.order = Append(@, e.id),
                   !.data = Append(@, [type |-> e.type, value |-> e.value,
                                       source_file |-> filename, community_id |-> None])]

\* networkx add_edge creates missing endpoints as attribute-less nodes
bare_node(G, n) ==
    IF has_node(G, n) THEN G
    ELSE [G EXCEPT !.order = Append(@, n),
                   !.data = Append(@, [type |-> Absent, value |-> Absent,
                                       source_file |-> None, community_id |-> None])]

add_edge(G, rel) ==
    [bare_node(bare_node(G, rel.source), rel.target) EXCEPT !.edges = Append(@, rel)]

unchecked_add_relationship(G, rel) == add_edge(G, rel)

add_relationship(G, rel) ==
    IF has_node(G, rel.source) /\ has_node(G, rel.target)
    THEN add_edge(G, rel)
    ELSE G

RECURSIVE add_entities(_, _, _)
add_entities(G, ents, filename) ==
    IF ents = <<>> THEN G
    ELSE add_entities(add_node(G, Head(ents), filename), Tail(ents), filename)

RECURSIVE add_relationships(_, _)
add_relationships(G, rels) ==
    IF rels = <<>> THEN G
    ELSE add_relationships(add_relationship(G, Head(rels)), Tail(rels))

\* lines 169-174: the merge of one document's extraction into G
merge_document(G, data, filename) ==
    IF Truthy(data)
    THEN add_relationships(add_entities(G, data.entities, filename), data.relationships)
    ELSE G

(* ---------------- graph_builder.py: communities and summaries ---------------- *)
Adjacent(G, a, b) ==
    \E k \in 1..Len(G.edges) :
        \/ G.edges[k].source = a /\ G.edges[k].target = b
        \/ G.edges[k].source = b /\ G.edges[k].target = a

RECURSIVE Component(_, _)
Component(G, S) ==
    LET T == S \cup {G.order[k] : k \in {j \in 1..Len(G.order) : \E a \in S : Adjacent(G, a, G.order[j])}}
    IN IF T = S THEN S ELSE Component(G, T)

\* greedy_modularity_communities is a library call: it returns a partition of
\* the nodes, numbered 0..k-1, that only ever joins nodes linked by edges
CommunityMaps(G) ==
    LET N == Len(G.order)
    IN {cm \in [1..N -> 0..(N - 1)] :
          /\ \A c \in 0..(N - 1) : (\E k \in 1..N : cm[k] = c) => \A b \in 0..c : \E k \in 1..N : cm[k] = b
          /\ \A j, k \in 1..N : cm[j] = cm[k] => G.order[k] \in Component(G, {G.order[j]})}

\* nx.set_node_attributes(G, community_map, 'community_id')
detect_and_store_communities(G, cm) ==
    [G EXCEPT !.data = [k \in 1..Len(G.order) |-> [G.data[k] EXCEPT !.community_id = cm[k]]]]

NumCommunities(cm) == Cardinality({cm[k] : k \in DOMAIN cm})

\* generate_community_summaries: one summary per community, the generated
\* sentence or the failure marker; the backend is up or down for the whole pass
SummarySets(cm) ==
    {[c \in 0..(NumCommunities(cm) - 1) |-> text] : text \in {"A theme.", SummaryFailed}}

(* ---------------- graph_builder.py: the entity index ---------------- *)
HasValue(d) == d.value # Absent

RECURSIVE ValuedPositions(_, _)
ValuedPositions(G, k) ==
    IF k > Len(G.order) THEN <<>>
    ELSE (IF HasValue(G.data[k]) THEN <<k>> ELSE <<>>) \o ValuedPositions(G, k + 1)

reversed_node_ids(G) ==
    [j \in 1..Len(ValuedPositions(G, 1)) |->
        G.order[ValuedPositions(G, 1)[Len(ValuedPositions(G, 1)) + 1 - j]]]

node_ids_of(G) == [j \in 1..Len(ValuedPositions(G, 1)) |-> G.order[ValuedPositions(G, 1)[j]]]

node_values_of(G) == [j \in 1..Len(ValuedPositions(G, 1)) |-> G.data[ValuedPositions(G, 1)[j]].value]

(* ---------------- persistence ---------------- *)
StrTable == <<"0", "1", "2", "3", "4", "5">>
str(n) == StrTable[n + 1]

\* json.dump turns the integer community keys into strings
json_summaries(summaries) ==
    [key \in {str(c) : c \in DOMAIN summaries} |->
        summaries[CHOOSE c \in DOMAIN summaries : str(c) = key]]

NoIndex == [exists |-> FALSE, G |-> EmptyGraph, summaries |-> <<>>,
            faiss_index |-> <<>>, faiss_node_ids |-> <<>>]

save_artifacts(G, summaries) ==
    [exists |-> TRUE, G |-> G, summaries |-> json_summaries(summaries),
     faiss_index |-> node_values_of(G), faiss_node_ids |-> node_ids_of(G)]

(* ---------------- query_engine.py: retrieval ---------------- *)
Perms(N) == {p \in [1..N -> 1..N] : \A a, b \in 1..N : p[a] = p[b] => a = b}

\* faiss_index.search(query_embedding, top_k): row positions closest first
\* (0-based), padded with -1 when the index holds fewer than top_k rows
search(faiss_index, ranking, k) ==
    [j \in 1..k |-> IF j <= Len(faiss_index) THEN ranking[j] - 1 ELSE -1]

\* Python list indexing: a negative index counts from the end
InRange(list, n) == IF n >= 0 THEN n < Len(list) ELSE -n <= Len(list)
PyIndex(list, n) == IF n >= 0 THEN list[n + 1] ELSE list[Len(list) + n + 1]

\* G.neighbors(node_id) of a MultiDiGraph: the successors, each once, in the
\* order of the first edge that leads to them
RECURSIVE neighbors(_, _, _)
neighbors(G, n, k) ==
    IF k = 0 THEN <<>>
    ELSE LET before == neighbors(G, n, k - 1)
             e == G.edges[k]
         IN IF e.source = n /\ ~(\E j \in 1..Len(before) : before[j] = e.target)
            THEN Append(before, e.target)
            ELSE before

ReviewText(source_file) == <<"text of review", source_file>>

EmptyContext == [local_graph |-> <<>>, global_community |-> <<>>, source_text |-> <<>>,
                 seen_communities |-> {}, seen_source_files |-> {}]

silent_fragment(G, node_id) ==
    LET node_data == NodeData(G, node_id)
        nb == neighbors(G, node_id, Len(G.edges))
    IN [entity |-> <<node_data.value, node_data.type>>,
        neighbors_info |->
            [j \in 1..Len(nb) |-> <<NodeData(G, nb[j]).value, NodeData(G, nb[j]).type>>]]

\* lines 52-59: the entity line, then one line per neighbour or the placeholder
local_fragment(G, node_id) ==
    LET node_data == NodeData(G, node_id)
        nb == neighbors(G, node_id, Len(G.edges))
    IN [entity |-> <<node_data.value, node_data.type>>,
        neighbors_info |->
            IF nb = <<>> THEN << <<NoRelationships>> >>
            ELSE [j \in 1..Len(nb) |-> <<NodeData(G, nb[j]).value, NodeData(G, nb[j]).type>>]]

every_time_community(ctx, node_data, summaries) ==
    LET community_id == node_data.community_id
    IN IF community_id # None
       THEN [ctx EXCEPT
               !.global_community = Append(@,
                   IF str(community_id) \in DOMAIN summaries
                   THEN summaries[str(community_id)] ELSE NoSummary),
               !.seen_communities = @ \cup {community_id}]
       ELSE ctx

add_community(ctx, node_data, summaries) ==
    LET community_id == node_data.community_id
    IN IF community_id # None /\ community_id \notin ctx.seen_communities
       THEN [ctx EXCEPT
               !.global_community = Append(@,
                   IF str(community_id) \in DOMAIN summaries
                   THEN summaries[str(community_id)] ELSE NoSummary),
               !.seen_communities = @ \cup {community_id}]
       ELSE ctx

\* present: the review files that can be opened while this query runs
add_source_text(ctx, node_data, present) ==
    LET source_file == node_data.source_file
    IN IF source_file # None /\ source_file \notin ctx.seen_source_files
          /\ source_file \in present
       THEN [ctx EXCEPT
               !.source_text = Append(@, <<source_file, ReviewText(source_file)>>),
               !.seen_source_files = @ \cup {source_file}]
       ELSE ctx

\* lines 48-78: one pass over the entry points
RECURSIVE augment(_, _, _, _, _)
augment(ctx, eps, G, summaries, present) ==
    IF eps = <<>> THEN ctx
    ELSE LET node_data == NodeData(G, Head(eps))
             a == [ctx EXCEPT !.local_graph = Append(@, local_fragment(G, Head(eps)))]
             b == add_community(a, node_data, summaries)
             c == add_source_text(b, node_data, present)
         IN augment(c, Tail(eps), G, summaries, present)

EmptyString == [header |-> "", global_community |-> <<>>, local_graph |-> <<>>,
                source_text |-> <<>>]

\* lines 80-89: the header is always there, a section only when it has fragments
assemble(ctx) ==
    [header |-> ContextHeader, global_community |-> ctx.global_community,
     local_graph |-> ctx.local_graph, source_text |-> ctx.source_text]

NoAnswer == "<no answer>"
Generated == "<generated answer>"

\* what one call of answer_query_with_graph leaves behind
NoQuery == [st |-> <<>>, load |-> "none", embed |-> "not called", generate |-> "not called",
            indices |-> <<>>, entry_point_node_ids |-> <<>>, present |-> {},
            context_text |-> EmptyString, answer |-> NoAnswer, raised |-> FALSE]

\* lines 22-89; embed_ok and ranking are the embedding backend's and the index's answers
retrieve_and_build_context(r, G, faiss_index, faiss_node_ids, summaries, embed_ok, ranking, present) ==
    IF ~embed_ok THEN [r EXCEPT !.embed = "failed", !.context_text = EmptyString]
    ELSE LET indices == search(faiss_index, ranking, top_k)
             r1 == [r EXCEPT !.embed = "ok", !.indices = indices]
         IN IF \E j \in 1..Len(indices) : ~InRange(faiss_node_ids, indices[j])
            THEN [r1 EXCEPT !.raised = TRUE]
            ELSE LET eps == [j \in 1..Len(indices) |-> PyIndex(faiss_node_ids, indices[j])]
                     r2 == [r1 EXCEPT !.entry_point_node_ids = eps, !.present = present]
                 IN IF \E j \in 1..Len(eps) : ~has_node(G, eps[j])
                    THEN [r2 EXCEPT !.raised = TRUE]
                    ELSE [r2 EXCEPT !.context_text =
                             assemble(augment(EmptyContext, eps, G, summaries, present))]

Artifacts == <<"graph.pkl", "community_summaries.json", "entity_embeddings.faiss", "faiss_node_ids.json">>

LoadStatuses ==
    {st \in [1..4 -> {"ok", "missing", "unreadable"}] :
        Cardinality({k \in 1..4 : st[k] # "ok"}) <= 1}

\* lines 96-105: the files are read in order; only FileNotFoundError is caught,
\* and faiss.read_index reports a missing file as a RuntimeError
load_artifacts(st) ==
    IF \A k \in 1..4 : st[k] = "ok" THEN "ok"
    ELSE LET k == CHOOSE j \in 1..4 : st[j] # "ok" /\ \A h \in 1..(j - 1) : st[h] = "ok"
         IN IF st[k] = "missing" /\ Artifacts[k] # "entity_embeddings.faiss"
            THEN "build first" ELSE "raise"

describe_embed_error(r) ==
    IF r.context_text = EmptyString
    THEN [r EXCEPT !.answer = IF r.embed = "failed" THEN "Could not embed query: {e}" ELSE NothingFound]
    ELSE r

\* lines 108-110
nothing_found(r) ==
    IF r.context_text = EmptyString THEN [r EXCEPT !.answer = NothingFound] ELSE r

\* lines 91-130
answer_query_with_graph(disk, st, embed_ok, ranking, present, gen_ok) ==
    LET r0 == [NoQuery EXCEPT !.st = st, !.load = load_artifacts(st)]
    IN IF r0.load = "build first" THEN [r0 EXCEPT !.answer = BuildFirst]
       ELSE IF r0.load = "raise" THEN [r0 EXCEPT !.raised = TRUE]
       ELSE LET r1 == retrieve_and_build_context(r0, disk.G, disk.faiss_index,
                          disk.faiss_node_ids, disk.summaries, embed_ok, ranking, present)
            IN IF r1.raised THEN r1
               ELSE IF r1.context_text = EmptyString THEN nothing_found(r1)
               ELSE IF gen_ok THEN [r1 EXCEPT !.generate = "ok", !.answer = Generated]
               ELSE [r1 EXCEPT !.generate = "failed", !.answer = GenError]

(* ---------------- main.py ---------------- *)
always_loop(success) == "loop"

\* lines 35-41: the query loop is entered only after a successful build
main_after_build(success) == IF success THEN "loop" ELSE "done"

\* lines 50-53: an answer is printed; an exception ends main
main_after_answer(r) == IF r.raised THEN "crashed" ELSE "print"

VARIABLES pc, reviews, G, i, extracted_data, response, writers, success, disk, q

\* writers is a history variable: the documents that added each entity id so far
vars == <<pc, reviews, G, i, extracted_data, response, writers, success, disk, q>>

Init ==
    /\ pc = "start"
    /\ reviews = None
    /\ G = EmptyGraph
    /\ i = 1
    /\ extracted_data = NoData
    /\ response = "none"
    /\ writers = [id \in Ids |-> {}]
    /\ success = "unset"
    /\ disk = NoIndex
    /\ q = NoQuery

\* main.py 23-24: an index directory is there, go straight to the query loop
UseCachedIndex ==
    /\ pc = "start"
    /\ disk.exists
    /\ pc' = "loop"
    /\ UNCHANGED <<reviews, G, i, extracted_data, response, writers, success, disk, q>>

\* scraper.py 26-28, 113-115: no review could be saved; main returns
ScrapeNothing ==
    /\ pc = "start"
    /\ ~disk.exists
    /\ reviews = None
    /\ reviews' = 0
    /\ pc' = "done"
    /\ UNCHANGED <<G, i, extracted_data, response, writers, success, disk, q>>

\* scraper.py: the reviews directory is returned, freshly filled or found on disk
ScrapeReviews ==
    /\ pc = "start"
    /\ ~disk.exists
    /\ IF reviews = None THEN reviews' \in 1..MaxDocs ELSE reviews' = reviews
    /\ pc' = "build"
    /\ G' = EmptyGraph
    /\ i' = 1
    /\ extracted_data' = NoData
    /\ response' = "none"
    /\ writers' = [id \in Ids |-> {}]
    /\ UNCHANGED <<success, disk, q>>

EntityIds(data) == {data.entities[k].id : k \in 1..Len(data.entities)}

\* graph_builder.py 164-175: one iteration of the build loop
ExtractAndMerge ==
    /\ pc = "build"
    /\ i <= reviews
    /\ \E resp \in Responses :
        LET data == extract_entities_from_review(resp)
        IN /\ extracted_data' = data
           /\ G' = merge_document(G, data, i)
           /\ response' = resp.kind
           /\ writers' = [id \in Ids |->
                 IF Truthy(data) /\ id \in EntityIds(data) THEN writers[id] \cup {i} ELSE writers[id]]
    /\ i' = i + 1
    /\ UNCHANGED <<pc, reviews, success, disk, q>>

\* graph_builder.py 177-179
BuildNoNodes ==
    /\ pc = "build"
    /\ i > reviews
    /\ number_of_nodes(G) = 0
    /\ success' = "False"
    /\ pc' = main_after_build(FALSE)
    /\ extracted_data' = NoData
    /\ response' = "none"
    /\ UNCHANGED <<reviews, G, i, writers, disk, q>>

\* graph_builder.py 181-190: nothing to embed, or the embedding call raises
BuildIndexFail ==
    /\ pc = "build"
    /\ i > reviews
    /\ number_of_nodes(G) # 0
    /\ success' = "False"
    /\ pc' = main_after_build(FALSE)
    /\ extracted_data' = NoData
    /\ response' = "none"
    /\ UNCHANGED <<reviews, G, i, writers, disk, q>>

\* graph_builder.py 181-203
BuildSave ==
    /\ pc = "build"
    /\ i > reviews
    /\ number_of_nodes(G) # 0
    /\ node_values_of(G) # <<>>
    /\ \E cm \in CommunityMaps(G) : \E summaries \in SummarySets(cm) :
          disk' = save_artifacts(detect_and_store_communities(G, cm), summaries)
    /\ success' = "True"
    /\ pc' = main_after_build(TRUE)
    /\ G' = EmptyGraph
    /\ extracted_data' = NoData
    /\ response' = "none"
    /\ UNCHANGED <<reviews, i, writers, q>>

AllOk == [k \in 1..4 |-> "ok"]

\* the environment of one query: the state of the four files, the answers of
\* the two backends, the distance ranking of the index rows, the review files
\* that can be opened; an input is drawn only where the code gets to use it
QueryInputs(d, nfiles) ==
    LET ident == [k \in 1..Len(d.faiss_index) |-> k]
    IN [st : LoadStatuses \ {AllOk}, embed_ok : {TRUE}, gen_ok : {TRUE},
        ranking : {ident}, present : {{}}]
       \cup [st : {AllOk}, embed_ok : {FALSE}, gen_ok : {TRUE},
              ranking : {ident}, present : {{}}]
       \cup [st : {AllOk}, embed_ok : {TRUE}, gen_ok : BOOLEAN,
              ranking : Perms(Len(d.faiss_index)), present : SUBSET (1..nfiles)]

\* main.py 45-50 with query_engine.py 91-130
AnswerQuery ==
    /\ pc = "loop"
    /\ \E in \in QueryInputs(disk, reviews) :
          /\ q' = answer_query_with_graph(disk, in.st, in.embed_ok, in.ranking, in.present, in.gen_ok)
          /\ pc' = main_after_answer(q')
    /\ UNCHANGED <<reviews, G, i, extracted_data, response, writers, success, disk>>

\* main.py 51-53, 44-45: the answer is printed and the loop asks for the next query
PrintAnswer ==
    /\ pc = "print"
    /\ pc' = "loop"
    /\ q' = NoQuery
    /\ UNCHANGED <<reviews, G, i, extracted_data, response, writers, success, disk>>

\* main.py 46-47
Exit ==
    /\ pc = "loop"
    /\ pc' = "done"
    /\ UNCHANGED <<reviews, G, i, extracted_data, response, writers, success, disk, q>>

\* the program is started again on the same disk
Rerun ==
    /\ pc \in {"done", "crashed"}
    /\ pc' = "start"
    /\ G' = EmptyGraph
    /\ i' = 1
    /\ extracted_data' = NoData
    /\ success' = "unset"
    /\ q' = NoQuery
    /\ writers' = [id \in Ids |-> {}]
    /\ UNCHANGED <<reviews, response, disk>>

Next ==
    \/ UseCachedIndex
    \/ ScrapeNothing
    \/ ScrapeReviews
    \/ ExtractAndMerge
    \/ BuildNoNodes
    \/ BuildIndexFail
    \/ BuildSave
    \/ AnswerQuery
    \/ PrintAnswer
    \/ Exit
    \/ Rerun

Spec == Init /\ [][Next]_vars

(* ---------------- answer_query_with_graph on its own ---------------- *)
\* answer_query_with_graph takes any index directory: here it is applied to
\* the artifacts of every small graph, with an index over the first n
\* entities only (n = 0: an index that holds zero entities)
OkData == {extract_entities_from_review(resp) : resp \in {r \in Responses : r.kind = "ok"}}

RetrieveGraphs ==
    {merge_document(merge_document(EmptyGraph, d1, 1), d2, 2) : d1, d2 \in OkData}

ArtifactsOf(g) ==
    UNION {{save_artifacts(detect_and_store_communities(g, cm), summaries) :
               summaries \in SummarySets(cm)} : cm \in CommunityMaps(g)}

RetrieveDisks ==
    UNION {{[d EXCEPT !.faiss_index = SubSeq(@, 1, n), !.faiss_node_ids = SubSeq(@, 1, n)] :
               n \in 0..Len(d.faiss_index)} : d \in UNION {ArtifactsOf(g) : g \in RetrieveGraphs}}

InitRetrieve ==
    /\ pc = "loop"
    /\ reviews = MaxDocs
    /\ G = EmptyGraph
    /\ i = 1
    /\ extracted_data = NoData
    /\ response = "none"
    /\ writers = [id \in Ids |-> {}]
    /\ success = "unset"
    /\ disk \in RetrieveDisks
    /\ q = NoQuery

NextRetrieve == AnswerQuery \/ PrintAnswer \/ Exit

SpecRetrieve == InitRetrieve /\ [][NextRetrieve]_vars

(* ======================= the claims ======================= *)
\* the last query loaded the four artifacts, embedded the query and built a context
Retrieved == q.load = "ok" /\ q.embed = "ok" /\ ~q.raised

Positions(seq) == 1..Len(seq)

\* the persisted graph is the one of the two-review scenario: review A gave
\* only bug1, review B gave only feat1, and there is no relationship
TwoReviewScenario(A, B) ==
    /\ disk.exists /\ reviews = 2 /\ A # B
    /\ disk.G.edges = <<>>
    /\ Len(disk.G.order) = 2 /\ has_node(disk.G, "bug1") /\ has_node(disk.G, "feat1")
    /\ NodeData(disk.G, "bug1").type = "BUG_REPORT"
    /\ NodeData(disk.G, "bug1").value = "crash on open"
    /\ NodeData(disk.G, "bug1").source_file = A
    /\ NodeData(disk.G, "feat1").type = "FEATURE_REQUEST"
    /\ NodeData(disk.G, "feat1").value = "dark mode"
    /\ NodeData(disk.G, "feat1").source_file = B

\* the row the search ranks first is the row of this entity
NearestIs(id) ==
    /\ Retrieved
    /\ q.indices[1] >= 0
    /\ PyIndex(disk.faiss_node_ids, q.indices[1]) = id

Bug1Fragment ==
    [entity |-> <<"crash on open", "BUG_REPORT">>, neighbors_info |-> << <<NoRelationships>> >>]

Excerpt(d) == <<d, ReviewText(d)>>

\* C1 as stated: in the two-review scenario a query nearest to bug1 gets a
\* context with the bug1 fragment (with the placeholder) and review A's text,
\* and without review B's text.
C1_ReviewBAbsent ==
    \A A, B \in 1..MaxDocs :
        (TwoReviewScenario(A, B) /\ NearestIs("bug1") /\ A \in q.present) =>
            /\ \E j \in Positions(q.context_text.local_graph) :
                    q.context_text.local_graph[j] = Bug1Fragment
            /\ \E j \in Positions(q.context_text.source_text) :
                    q.context_text.source_text[j] = Excerpt(A)
            /\ ~\E j \in Positions(q.context_text.source_text) :
                    q.context_text.source_text[j] = Excerpt(B)

\* C1 amended: in the two-review scenario a query nearest to bug1 gets a
\* context whose first local fragment is the bug1 fragment with the
\* placeholder and whose first grounding excerpt is review A's text; review
\* B's text follows as the second excerpt whenever its file can be read,
\* because feat1 is among the top_k = 5 entry points as well.
C1_TwoReviewContext ==
    \A A, B \in 1..MaxDocs :
        (TwoReviewScenario(A, B) /\ NearestIs("bug1") /\ A \in q.present) =>
            /\ q.context_text.local_graph[1] = Bug1Fragment
            /\ q.context_text.source_text[1] = Excerpt(A)
            /\ IF B \in q.present
               THEN q.context_text.source_text = <<Excerpt(A), Excerpt(B)>>
               ELSE q.context_text.source_text = <<Excerpt(A)>>

C1_Witness ==
    \E A, B \in 1..MaxDocs :
        /\ TwoReviewScenario(A, B) /\ NearestIs("bug1")
        /\ q.present = {A, B}
        /\ q.answer = Generated

\* C2 as stated: when the search yields no entry point (the index holds zero
\* entities) the context is the empty string, the answer is the 'nothing
\* relevant found' message and the generation backend is not called.
C2_NoEntryPoints ==
    (q.load = "ok" /\ q.embed = "ok" /\ Len(disk.faiss_index) = 0) =>
        /\ ~q.raised
        /\ pc # "crashed"
        /\ q.context_text = EmptyString
        /\ q.answer = NothingFound
        /\ q.generate = "not called"

\* C3: a relationship whose source or target is not a node when it is
\* inserted leaves no edge and no node behind, and the build loop goes on:
\* one merge adds exactly the extracted entity ids as nodes, and appends
\* exactly the relationships whose two endpoints are nodes by then.
C3_DanglingDropped ==
    [][(pc = "build" /\ i' = i + 1) =>
        LET data == extracted_data'
            ents == IF Truthy(data) THEN data.entities ELSE <<>>
            rels == IF Truthy(data) THEN data.relationships ELSE <<>>
            nodes == {G.order[k] : k \in Positions(G.order)}
                        \cup {ents[k].id : k \in Positions(ents)}
            BothKnown(r) == r.source \in nodes /\ r.target \in nodes
        IN /\ {G'.order[k] : k \in Positions(G'.order)} = nodes
           /\ G'.edges = G.edges \o SelectSeq(rels, BothKnown)
           /\ \A k \in Positions(G'.edges) :
                 has_node(G', G'.edges[k].source) /\ has_node(G', G'.edges[k].target)
           /\ pc' = "build"]_vars

\* a relationship with an unknown endpoint was just dropped and documents remain
C3_Witness ==
    /\ pc = "build" /\ i <= reviews
    /\ extracted_data.relationships # <<>>
    /\ \E k \in Positions(extracted_data.relationships) :
          ~(has_node(G, extracted_data.relationships[k].source)
            /\ has_node(G, extracted_data.relationships[k].target))
    /\ number_of_nodes(G) > 0
    /\ number_of_edges(G) = 0

\* C4: the context holds at most one summary fragment per distinct community
\* id of the entry points and at most one excerpt per distinct source file,
\* however often an entity, community or file recurs among the entry points.
C4_Deduplicated ==
    (Retrieved /\ q.entry_point_node_ids # <<>>) =>
        LET eps == q.entry_point_node_ids
            communities == {NodeData(disk.G, eps[j]).community_id : j \in Positions(eps)}
            files == {NodeData(disk.G, eps[j]).source_file : j \in Positions(eps)}
        IN /\ Len(q.context_text.global_community) <= Cardinality(communities)
           /\ Len(q.context_text.source_text) <= Cardinality(files)
           /\ \A a, b \in Positions(q.context_text.source_text) :
                 q.context_text.source_text[a][1] = q.context_text.source_text[b][1] => a = b

\* two different entry points share a community, one entity recurs, and
\* summaries and excerpts were emitted
C4_Witness ==
    /\ Retrieved
    /\ \E a, b \in Positions(q.entry_point_node_ids) :
          /\ q.entry_point_node_ids[a] # q.entry_point_node_ids[b]
          /\ NodeData(disk.G, q.entry_point_node_ids[a]).community_id
               = NodeData(disk.G, q.entry_point_node_ids[b]).community_id
    /\ \E a, b \in Positions(q.entry_point_node_ids) :
          a # b /\ q.entry_point_node_ids[a] = q.entry_point_node_ids[b]
    /\ Len(q.context_text.global_community) = 1
    /\ Len(q.context_text.source_text) = 2

\* C5: a document whose extraction fails (backend error, no JSON block,
\* malformed JSON) leaves the graph as it was, the loop moves on to the next
\* document, and the build only finishes after every document had its one turn.
C5_FailureSkipsDocument ==
    /\ [][(pc = "build" /\ i' # i) =>
            /\ i' = i + 1
            /\ pc' = "build"
            /\ (response' \in {"api_error", "no_json", "bad_json"} => G' = G)]_vars
    /\ [](pc = "build" => i <= reviews + 1)
    /\ [](success # "unset" => i = reviews + 1)

\* the first of two documents just failed with malformed JSON: the graph is
\* still empty and the loop stands at the second document
C5_Witness ==
    /\ pc = "build" /\ i = 2 /\ reviews = 2
    /\ response = "bad_json"
    /\ extracted_data = NoData
    /\ G = EmptyGraph

Min(S) == CHOOSE x \in S : \A y \in S : x <= y
Max(S) == CHOOSE x \in S : \A y \in S : x >= y

\* C6 as stated: a node's source_file is the first document that added its id.
C6_FirstWriterWins ==
    pc = "build" =>
        \A k \in Positions(G.order) :
            G.order[k] \in Ids => G.data[k].source_file = Min(writers[G.order[k]])

\* C6 amended: when the same entity id is extracted from two different
\* documents during one build, the node's source_file after both merges is
\* the file of the last document that added the id (last writer wins).
C6_LastWriterWins ==
    pc = "build" =>
        \A k \in Positions(G.order) :
            G.order[k] \in Ids =>
                /\ writers[G.order[k]] # {}
                /\ G.data[k].source_file = Max(writers[G.order[k]])

\* the loop is over and some id was added by two different documents
C6_Witness ==
    /\ pc = "build" /\ i > reviews
    /\ \E k \in Positions(G.order) : Cardinality(writers[G.order[k]]) >= 2

\* C7 as stated: every local fragment lists every node adjacent to its entry
\* point in the undirected sense, and carries the placeholder only when the
\* entry point has no incident edge in either direction.
C7_UndirectedNeighbours ==
    (Retrieved /\ q.entry_point_node_ids # <<>>) =>
        \A j \in Positions(q.entry_point_node_ids) :
            LET n == q.entry_point_node_ids[j]
                info == q.context_text.local_graph[j].neighbors_info
                adjacent == {m \in {disk.G.order[k] : k \in Positions(disk.G.order)} :
                                Adjacent(disk.G, n, m)}
            IN /\ \A m \in adjacent : \E k \in Positions(info) :
                     info[k] = <<NodeData(disk.G, m).value, NodeData(disk.G, m).type>>
               /\ (\E k \in Positions(info) : info[k] = <<NoRelationships>>) => adjacent = {}

\* C8 as stated: when one of the four artifacts is missing or unreadable the
\* query returns the 'build the index first' message, raises nothing and
\* calls neither backend.
C8_BuildFirstMessage ==
    (q.load # "none" /\ \E k \in 1..4 : q.st[k] # "ok") =>
        /\ q.answer = BuildFirst
        /\ ~q.raised
        /\ pc # "crashed"
        /\ q.embed = "not called"
        /\ q.generate = "not called"

\* C9: a build that reports failure (no nodes, nothing to embed, embedding or
\* index construction failed) has written no artifact, and main returns
\* without entering the query loop in that run.
C9_FatalBuildStops ==
    /\ [][(success # "False" /\ success' = "False") =>
            /\ ~disk.exists
            /\ disk' = disk
            /\ pc' = "done"]_vars
    /\ [](success = "False" => (pc \in {"done"} /\ ~disk.exists /\ q = NoQuery))

\* the embedding step failed on a graph that has nodes, and main has returned
C9_Witness ==
    /\ success = "False"
    /\ pc = "done"
    /\ number_of_nodes(G) > 0
    /\ ~disk.exists

ErrorAnswers == {GenError, "Could not embed query: {e}"}

\* C10 as stated: a failing embedding call or generation call gives an answer
\* string that describes the error, nothing is raised, and the loop goes on.
C10_ErrorDescribed ==
    (q.embed = "failed" \/ q.generate = "failed") =>
        /\ ~q.raised
        /\ q.answer \in ErrorAnswers
        /\ pc = "print"

\* C10 amended: neither failure raises and the interactive loop goes on to
\* the next query; a failing generation call gives an answer string that
\* describes the error, while a failing embedding call gives the generic
\* 'nothing relevant found' message (the error is only printed) and the
\* generation backend is not called.
C10_FailuresReturn ==
    /\ [](q.generate = "failed" => (~q.raised /\ q.answer = GenError /\ pc = "print"))
    /\ [](q.embed = "failed" =>
             /\ ~q.raised
             /\ q.answer = NothingFound
             /\ q.generate = "not called"
             /\ pc = "print")
    /\ [][pc = "print" => pc' = "loop"]_vars

\* a query whose embedding call failed has its answer ready for printing
C10_Witness ==
    /\ pc = "print"
    /\ q.embed = "failed"
    /\ q.answer = NothingFound

\* C11: once create_entity_embeddings_index has succeeded, the id list and
\* the index have the same length, the ids are the graph's nodes in node
\* order, each once, and the text embedded as row p is the value of the node
\* named at position p, also when an id was extracted from several documents.
C11_IndexAligned ==
    disk.exists =>
        /\ Len(disk.faiss_node_ids) = Len(disk.faiss_index)
        /\ Len(disk.faiss_node_ids) = number_of_nodes(disk.G)
        /\ \A p \in Positions(disk.faiss_node_ids) :
              /\ disk.faiss_node_ids[p] = disk.G.order[p]
              /\ disk.faiss_index[p] = NodeData(disk.G, disk.faiss_node_ids[p]).value
        /\ \A a, b \in Positions(disk.faiss_node_ids) :
              disk.faiss_node_ids[a] = disk.faiss_node_ids[b] => a = b

\* an index of two rows with different texts was saved by this run's build,
\* one entity from each of two documents
C11_Witness ==
    /\ pc = "loop"
    /\ success = "True"
    /\ disk.exists
    /\ Len(disk.faiss_index) = 2
    /\ disk.faiss_index[1] # disk.faiss_index[2]
    /\ \A id \in Ids : writers[id] # {}

\* C12 as stated: the entry-point list holds exactly min(top_k, N) ids, all
\* distinct, each mapped from a valid index position 0..N-1 in the order the
\* search reports them, so that no entity yields more than one local fragment.
C12_ValidEntryPoints ==
    Retrieved =>
        LET N == Len(disk.faiss_index)
            eps == q.entry_point_node_ids
        IN /\ Len(eps) = (IF top_k <= N THEN top_k ELSE N)
           /\ \A j \in Positions(eps) :
                 /\ q.indices[j] \in 0..(N - 1)
                 /\ eps[j] = disk.faiss_node_ids[q.indices[j] + 1]
           /\ \A a, b \in Positions(eps) : eps[a] = eps[b] => a = b
           /\ Len(q.context_text.local_graph) = Len(eps)

====
